---- MODULE Spec2Model ----
(***************************************************************************)
(* A model of src/airdrop_monitor.py: class AirdropMonitor, one polling    *)
(* pass (process_airdrops) after another over a persistent SQLite store.   *)
(*                                                                         *)
(* Conventions                                                             *)
(*  - A nullable value (Python None / SQL NULL) is None == <<>>, a present *)
(*    value v is Some(v) == <<v>>.                                         *)
(*  - Text is a TLA+ string; Chars gives its characters, and the string    *)
(*    functions of the code (strip, isdigit, re.match, strptime, float)    *)
(*    are computed on the characters.                                      *)
(*  - The clock counts seconds from 2024-01-01 00:00 Beijing time.         *)
(*    Computation takes no time: the clock moves only in time.sleep and    *)
(*    between passes.                                                      *)
(*  - Money is in hundredths: a price 2.0 is 200, an amount "50" is 5000   *)
(*    hundredths of a token, and total_value = amount * price / 100.       *)
(*  - A feed record holds, for time, amount and points, what               *)
(*    airdrop.get(key, '') returns: a missing key is "", a JSON null None. *)
(***************************************************************************)
EXTENDS Integers, Sequences, FiniteSets, TLC

None == <<>>
Some(v) == <<v>>

(***************************************************************************)
(* Text                                                                    *)
(***************************************************************************)
KnownStrings ==
  {"", " ", "None", "Delay", "10:00", "10:00 ", "10:05", "25:00",
   "50", "100", "200", "abc", "1-5"}

Chars(s) ==
  CASE s = ""       -> <<>>
    [] s = " "      -> <<" ">>
    [] s = "None"   -> <<"N", "o", "n", "e">>
    [] s = "Delay"  -> <<"D", "e", "l", "a", "y">>
    [] s = "10:00"  -> <<"1", "0", ":", "0", "0">>
    [] s = "10:00 " -> <<"1", "0", ":", "0", "0", " ">>
    [] s = "10:05"  -> <<"1", "0", ":", "0", "5">>
    [] s = "25:00"  -> <<"2", "5", ":", "0", "0">>
    [] s = "50"     -> <<"5", "0">>
    [] s = "100"    -> <<"1", "0", "0">>
    [] s = "200"    -> <<"2", "0", "0">>
    [] s = "abc"    -> <<"a", "b", "c">>
    [] s = "1-5"    -> <<"1", "-", "5">>

FromChars(cs) == CHOOSE s \in KnownStrings : Chars(s) = cs

Digits == {"0", "1", "2", "3", "4", "5", "6", "7", "8", "9"}

DigitVal(c) ==
  CASE c = "0" -> 0 [] c = "1" -> 1 [] c = "2" -> 2 [] c = "3" -> 3
    [] c = "4" -> 4 [] c = "5" -> 5 [] c = "6" -> 6 [] c = "7" -> 7
    [] c = "8" -> 8 [] c = "9" -> 9

RECURSIVE NatVal(_)
NatVal(cs) ==
  IF cs = <<>> THEN 0
  ELSE 10 * NatVal(SubSeq(cs, 1, Len(cs) - 1)) + DigitVal(cs[Len(cs)])

AllDigits(cs) == \A i \in 1..Len(cs) : cs[i] \in Digits

RECURSIVE LStripChars(_)
LStripChars(cs) ==
  IF cs # <<>> /\ cs[1] = " " THEN LStripChars(Tail(cs)) ELSE cs

RECURSIVE RStripChars(_)
RStripChars(cs) ==
  IF cs # <<>> /\ cs[Len(cs)] = " "
  THEN RStripChars(SubSeq(cs, 1, Len(cs) - 1)) ELSE cs

\* str.strip()
Strip(s) == FromChars(RStripChars(LStripChars(Chars(s))))

\* str(x) of a nullable text
Str(x) == IF x = None THEN "None" ELSE x[1]

\* Python truth value of a nullable text
Truthy(x) == x # None /\ x[1] # ""

RECURSIVE Remove(_, _)
Remove(cs, c) ==
  IF cs = <<>> THEN <<>>
  ELSE IF cs[1] = c THEN Remove(Tail(cs), c)
  ELSE <<cs[1]>> \o Remove(Tail(cs), c)

\* the position of the first c in cs, 0 when there is none
FirstIndex(cs, c) ==
  LET hits == {i \in 1..Len(cs) : cs[i] = c}
  IN IF hits = {} THEN 0 ELSE CHOOSE i \in hits : \A j \in hits : i <= j

(***************************************************************************)
(* Dates and clock times                                                   *)
(***************************************************************************)
DAY == 24 * 3600

HMS(d, h, m, s) == d * DAY + h * 3600 + m * 60 + s

\* now.strftime('%Y-%m-%d')
DateStr(day) ==
  CASE day = 0 -> "2024-01-01"
    [] day = 1 -> "2024-01-02"
    [] OTHER   -> "2024-01-03"

\* datetime.strptime(date_str, '%Y-%m-%d'): the day, or -1 for a ValueError
DayOf(date_str) ==
  CASE date_str = "2024-01-01" -> 0
    [] date_str = "2024-01-02" -> 1
    [] date_str = "2024-01-03" -> 2
    [] OTHER -> -1

Today(now) == DateStr(now \div DAY)

\* The '%H:%M' part of datetime.strptime(f"{date_str} {time_str}",
\* '%Y-%m-%d %H:%M') applied to the characters of time_str: the seconds since
\* midnight, or -1 for a ValueError. The blank of the format matches any run
\* of whitespace, so leading blanks of time_str are skipped; text left over
\* after the minutes ("unconverted data remains") is an error.
StrptimeHM(cs) ==
  LET l     == LStripChars(cs)
      colon == FirstIndex(l, ":")
      h     == SubSeq(l, 1, colon - 1)
      m     == SubSeq(l, colon + 1, Len(l))
  IN IF /\ colon > 0
        /\ Len(h) \in 1..2 /\ AllDigits(h) /\ NatVal(h) <= 23
        /\ Len(m) \in 1..2 /\ AllDigits(m) /\ NatVal(m) <= 59
     THEN NatVal(h) * 3600 + NatVal(m) * 60
     ELSE -1

\* re.match(r'^\d{1,2}:\d{2}$', s)
IsHMForm(cs) ==
  LET colon == FirstIndex(cs, ":")
      h     == SubSeq(cs, 1, colon - 1)
      m     == SubSeq(cs, colon + 1, Len(cs))
  IN /\ colon > 0
     /\ Len(h) \in 1..2 /\ AllDigits(h)
     /\ Len(m) = 2 /\ AllDigits(m)

\* BEIJING_TZ.localize(datetime.strptime(f"{date_str} {time_str}", ...)) as
\* seconds on the clock, or -1 when strptime raises
EventDatetime(date_str, time_str) ==
  IF DayOf(date_str) < 0 \/ StrptimeHM(Chars(time_str)) < 0 THEN -1
  ELSE DayOf(date_str) * DAY + StrptimeHM(Chars(time_str))

\* is_airdrop_expired with "now >= airdrop_datetime": expired from the
\* start time on
is_airdrop_expired_at_start(airdrop, now) ==
  LET date_str     == airdrop.date
      time_str     == airdrop.time
      airdrop_date == DayOf(date_str)
      today        == now \div DAY
  IN IF date_str = "" THEN FALSE
     ELSE IF airdrop_date < 0 THEN FALSE
     ELSE IF Truthy(time_str) /\ Strip(time_str[1]) # ""
          THEN IF IsHMForm(Chars(Strip(time_str[1])))
               THEN IF EventDatetime(date_str, time_str[1]) >= 0
                    THEN now >= EventDatetime(date_str, time_str[1])
                    ELSE today > airdrop_date
               ELSE today > airdrop_date
          ELSE today > airdrop_date

\* process_airdrops without the expiry check
is_airdrop_expired_never(airdrop, now) == FALSE

is_airdrop_expired(airdrop, now) ==
  LET date_str     == airdrop.date
      time_str     == airdrop.time
      airdrop_date == DayOf(date_str)
      today        == now \div DAY
  IN IF date_str = "" THEN FALSE
     ELSE IF airdrop_date < 0 THEN FALSE
     ELSE IF Truthy(time_str) /\ Strip(time_str[1]) # ""
          THEN IF IsHMForm(Chars(Strip(time_str[1])))
               THEN IF EventDatetime(date_str, time_str[1]) >= 0
                    THEN now > EventDatetime(date_str, time_str[1])
                    ELSE today > airdrop_date
               ELSE today > airdrop_date
          ELSE today > airdrop_date

(***************************************************************************)
(* Valuation and priority                                                  *)
(***************************************************************************)
\* float(amount) in hundredths: Some(value), or None for a ValueError. Called
\* only on text made of digits, "." and "-" (calculate_value checks that
\* first): an optional sign, then digits with at most one ".".
FloatVal(cs) ==
  LET neg  == cs # <<>> /\ cs[1] = "-"
      body == IF neg THEN Tail(cs) ELSE cs
      dot  == FirstIndex(body, ".")
      int  == IF dot = 0 THEN body ELSE SubSeq(body, 1, dot - 1)
      frac == IF dot = 0 THEN <<>> ELSE SubSeq(body, dot + 1, Len(body))
      f2   == SubSeq(frac \o <<"0", "0">>, 1, 2)
      abs  == NatVal(int) * 100 + NatVal(f2)
  IN IF AllDigits(int) /\ AllDigits(frac) /\ Len(int) + Len(frac) > 0
     THEN Some(IF neg THEN 0 - abs ELSE abs)
     ELSE None

\* HIGH_VALUE_THRESHOLD and MEDIUM_VALUE_THRESHOLD of config.py, in hundredths
HIGH_VALUE_THRESHOLD == 10000
MEDIUM_VALUE_THRESHOLD == 5000

\* What calculate_value gives when it raises instead of returning: a price
\* field that is JSON null makes "price > 0" or "final_price <= 0" compare
\* None with an int, and nothing in calculate_value catches the TypeError.
TypeError == <<"TypeError">>

\* A price record holds, for price and dex_price, what
\* token_price_info.get(key, 0) returns: Some(n) for a number (a missing key
\* is Some(0)), None for a JSON null.
calculate_value(amount, token, prices) ==
  LET cleaned == Remove(Remove(Chars(Str(amount)), "."), "-")
      token_price_info == prices[token]
      price == token_price_info[1].price
      dex_price == token_price_info[1].dex_price
      final_price == IF price[1] > 0 THEN price ELSE dex_price
      f == FloatVal(Chars(Str(amount)))
  IN IF ~ Truthy(amount) \/ cleaned = <<>> \/ ~ AllDigits(cleaned)
     THEN <<None, None>>
     ELSE IF token_price_info = None THEN <<None, None>>
     ELSE IF price = None THEN TypeError
     ELSE IF final_price = None THEN TypeError
     ELSE IF final_price[1] <= 0 THEN <<None, None>>
     ELSE IF f = None THEN <<final_price, None>>
     ELSE <<final_price, Some((f[1] * final_price[1]) \div 100)>>

\* get_priority_by_value with ">" for ">=": a value at a threshold falls
\* into the tier below
get_priority_by_value_above(total_value) ==
  IF total_value = None THEN "normal"
  ELSE IF total_value[1] > HIGH_VALUE_THRESHOLD THEN "high"
  ELSE IF total_value[1] > MEDIUM_VALUE_THRESHOLD THEN "medium"
  ELSE "normal"

get_priority_by_value(total_value) ==
  IF total_value = None THEN "normal"
  ELSE IF total_value[1] >= HIGH_VALUE_THRESHOLD THEN "high"
  ELSE IF total_value[1] >= MEDIUM_VALUE_THRESHOLD THEN "medium"
  ELSE "normal"

(***************************************************************************)
(* Configuration (config.py) and constants of the code                     *)
(***************************************************************************)
\* REMINDER_3MIN: minutes before the start; REMINDER_COUNT: reminders of a
\* burst; REMINDER_INTERVAL: seconds between two reminders
REMINDER_3MIN == 3
REMINDER_COUNT == 3
REMINDER_INTERVAL == 20

\* check_upcoming_airdrops: "if 0 < time_diff_minutes <= 10"
UPCOMING_MINUTES == 10

(***************************************************************************)
(* State                                                                   *)
(***************************************************************************)
VARIABLES
  store,           \* table airdrops: a sequence of rows, the id is the index
  status_changes,  \* table status_changes: the audit log
  sent,            \* every call of send_notification so far, in order
  clock,           \* get_beijing_time()
  pc,              \* where process_airdrops is: idle, loop, wait, send, mark
  passes,          \* invocations of process_airdrops so far
  fed,             \* feed records the loop of this pass has taken
  prices,          \* prices_dict of this pass: token -> None or Some(info)
  upcoming,        \* upcoming_airdrops of this pass
  cur,             \* index into upcoming of the event being reminded
  i,               \* loop variable of the reminder burst
  obs,             \* what the last loop iteration saw and did: the record,
                   \* the row as stored before, the changes returned and
                   \* the audit rows appended
  inv,             \* overlapping invocations: where each one is in
                   \* check_and_notify_new, and its locals
  call,            \* the last direct call of a pure method: the method,
                   \* its arguments and what it returned
  sink             \* the notification service: whether sc_send raises now,
                   \* and the calls of send_notification (indexes of sent)
                   \* in which it raised

vars ==
  <<store, status_changes, sent, clock, pc, passes, fed, prices, upcoming,
    cur, i, obs, inv, call, sink>>

Tokens == {"TKN"}

NoObs ==
  [outcome |-> "none", airdrop |-> None, id |-> 0, old |-> None,
   total_value |-> None, changes |-> <<>>, logged |-> <<>>]

\* Two processes may run process_airdrops at once on the one database file
Invocations == {1, 2}

\* at: idle (between two records), insert, notify, mark, failed (the pass
\* ended in the except clause) or killed (the process ended before the
\* statement at hand); taken: records taken from the feed
NoInvocation == [at |-> "idle", airdrop |-> None, id |-> 0, taken |-> 0]

NoCall == [method |-> "none", args |-> <<>>, result |-> None]

SinkUp == [down |-> FALSE, lost |-> {}]

Init ==
  /\ store = <<>>
  /\ status_changes = <<>>
  /\ sent = <<>>
  /\ clock = 0
  /\ pc = "idle"
  /\ passes = 0
  /\ fed = 0
  /\ prices = [t \in Tokens |-> None]
  /\ upcoming = <<>>
  /\ cur = 0
  /\ i = 0
  /\ obs = NoObs
  /\ inv = [p \in Invocations |-> NoInvocation]
  /\ call = NoCall
  /\ sink = SinkUp

(***************************************************************************)
(* Event store                                                             *)
(***************************************************************************)
\* SQL "x = ?": never true when either side is NULL
SqlEq(x, y) == x # None /\ y # None /\ x = y

\* The id of the row fetchone() returns for
\* "WHERE token = ? AND date = ? AND phase = ?", 0 when there is none
get_airdrop_by_key(st, token, date, phase) ==
  LET hits == {r \in 1..Len(st) :
                 /\ st[r].token = token
                 /\ st[r].date = date
                 /\ SqlEq(st[r].phase, phase)}
  IN IF hits = {} THEN 0 ELSE CHOOSE r \in hits : \A q \in hits : r <= q

\* The new row gets id Len(st) + 1 (AUTOINCREMENT, no row is ever deleted).
\* UNIQUE(token, date, phase) rejects a row only when a stored row is equal
\* to it in all three columns with no NULL among them, which is the
\* condition get_airdrop_by_key has just found false.
insert_new_airdrop(st, airdrop, price, total_value) ==
  Append(st,
    [token |-> airdrop.token, date |-> airdrop.date, phase |-> airdrop.phase,
     time |-> airdrop.time, amount |-> airdrop.amount,
     points |-> airdrop.points, status |-> airdrop.status,
     price |-> price, total_value |-> total_value,
     notified_new |-> 0, notified_3min |-> 0])

\* update_airdrop written as a row replacement (REPLACE INTO), which gives the
\* columns it does not name their defaults: the reminder flag is lost
update_airdrop_replacing(st, airdrop_id, airdrop, price, total_value) ==
  [st EXCEPT ![airdrop_id] =
     [@ EXCEPT !.time = airdrop.time, !.amount = airdrop.amount,
               !.points = airdrop.points, !.status = airdrop.status,
               !.price = price, !.total_value = total_value,
               !.notified_3min = 0]]

update_airdrop(st, airdrop_id, airdrop, price, total_value) ==
  [st EXCEPT ![airdrop_id] =
     [@ EXCEPT !.time = airdrop.time, !.amount = airdrop.amount,
               !.points = airdrop.points, !.status = airdrop.status,
               !.price = price, !.total_value = total_value]]

\* UPDATE airdrops SET notified_new = 1 WHERE id = ?
mark_notified_new(st, airdrop_id) ==
  [st EXCEPT ![airdrop_id].notified_new = 1]

\* UPDATE airdrops SET notified_3min = 1 WHERE id = ?
mark_notified_3min(st, airdrop_id) ==
  [st EXCEPT ![airdrop_id].notified_3min = 1]

\* record_status_change binding old and new value in the other order
record_status_change_swapped(airdrop_id, change_type, old_value, new_value) ==
  [airdrop_id |-> airdrop_id, change_type |-> change_type,
   old_value |-> new_value, new_value |-> old_value]

\* The row record_status_change inserts: str(old_value), str(new_value)
record_status_change(airdrop_id, change_type, old_value, new_value) ==
  [airdrop_id |-> airdrop_id, change_type |-> change_type,
   old_value |-> old_value, new_value |-> new_value]

\* One call of send_notification. info is what the content carries: the
\* messages of a status update, <<number, remaining seconds>> of a reminder.
Notification(tag, priority, airdrop_id, info) ==
  [tag |-> tag, priority |-> priority, id |-> airdrop_id, info |-> info]

\* send_notification without its try block: an exception of sc_send leaves
\* the method
send_notification_uncaught(down) == IF down THEN "raised" ELSE "returned"

\* What the caller of send_notification sees of a call made while sc_send
\* raises (down) or not. "except Exception" catches whatever sc_send raises,
\* logs it and returns None: the caller sees a return either way.
send_notification(down) == "returned"

\* The calls of send_notification this step makes are lost when sc_send
\* raises
sc_send_outcomes ==
  [sink EXCEPT !.lost = IF sink.down
                        THEN @ \cup ((Len(sent) + 1)..Len(sent'))
                        ELSE @]

\* The notification the except clause of process_airdrops sends
ErrorNotification == Notification("error", "high", 0, <<>>)

(***************************************************************************)
(* Change detector                                                         *)
(***************************************************************************)
\* "old_data[k] if old_data[k] else ''"
OrEmpty(x) == IF Truthy(x) THEN x[1] ELSE ""

\* Each of the four checks gives the pairs <<audit row, change>> it makes:
\* none or one.
time_check(airdrop_id, old_data, new_airdrop) ==
  LET old_time == OrEmpty(old_data.time)
      new_time == new_airdrop.time
      old_time_normalized == Strip(old_time)
      new_time_normalized == Strip(Str(new_time))
  IN IF old_time_normalized # new_time_normalized /\ new_time_normalized # ""
     THEN << [log |-> record_status_change(airdrop_id, "time_updated",
                                           old_time, Str(new_time)),
              chg |-> [type |-> "time_updated", old |-> Some(old_time),
                       new |-> new_time,
                       message |-> IF old_time_normalized # ""
                                   THEN "time_changed"
                                   ELSE "time_confirmed"]] >>
     ELSE <<>>

amount_check(airdrop_id, old_data, new_airdrop) ==
  LET old_amount == OrEmpty(old_data.amount)
      new_amount == new_airdrop.amount
      old_amount_normalized == Strip(old_amount)
      new_amount_normalized == Strip(Str(new_amount))
  IN IF old_amount_normalized = "" /\ new_amount_normalized # ""
     THEN << [log |-> record_status_change(airdrop_id, "amount_updated",
                                           old_amount, Str(new_amount)),
              chg |-> [type |-> "amount_updated", old |-> Some(old_amount),
                       new |-> new_amount,
                       message |-> "amount_confirmed"]] >>
     ELSE <<>>

points_check(airdrop_id, old_data, new_airdrop) ==
  LET old_points == OrEmpty(old_data.points)
      new_points == new_airdrop.points
      old_points_normalized == Strip(old_points)
      new_points_normalized == Strip(Str(new_points))
  IN IF old_points_normalized = "" /\ new_points_normalized # ""
     THEN << [log |-> record_status_change(airdrop_id, "points_updated",
                                           old_points, Str(new_points)),
              chg |-> [type |-> "points_updated", old |-> Some(old_points),
                       new |-> new_points,
                       message |-> "points_confirmed"]] >>
     ELSE <<>>

\* check_status_changes without its last check: total_value unmonitored
value_check_missing(airdrop_id, old_data, new_total_value) == <<>>

\* str(new_total_value) is kept as the number, in a tuple
value_check(airdrop_id, old_data, new_total_value) ==
  LET old_total_value == old_data.total_value
  IN IF /\ old_total_value = None
        /\ new_total_value # None
        /\ new_total_value[1] > 0
     THEN << [log |-> record_status_change(airdrop_id, "value_updated",
                                           "None", new_total_value),
              chg |-> [type |-> "value_updated", old |-> None,
                       new |-> new_total_value,
                       message |-> "value_confirmed"]] >>
     ELSE <<>>

\* The pairs in the order the code makes them; the audit rows are appended
\* to status_changes and the changes are returned.
check_status_changes(airdrop_id, old_data, new_airdrop, new_price, new_total_value) ==
  time_check(airdrop_id, old_data, new_airdrop)
    \o amount_check(airdrop_id, old_data, new_airdrop)
    \o points_check(airdrop_id, old_data, new_airdrop)
    \o value_check(airdrop_id, old_data, new_total_value)

Logs(pairs) == [k \in 1..Len(pairs) |-> pairs[k].log]
Changes(pairs) == [k \in 1..Len(pairs) |-> pairs[k].chg]
Messages(changes) == [k \in 1..Len(changes) |-> changes[k].message]

\* What notify_status_changes sends: nothing for an empty change list
notify_status_changes(airdrop_id, changes, total_value) ==
  IF changes = <<>> THEN <<>>
  ELSE << Notification("status", get_priority_by_value(total_value),
                       airdrop_id, Messages(changes)) >>

(***************************************************************************)
(* Countdown scheduler                                                     *)
(***************************************************************************)
\* The rows "WHERE date = ? AND time != '' AND time IS NOT NULL AND
\* notified_3min = 0" selects, by id
due_rows(st, now) ==
  {r \in 1..Len(st) :
     /\ st[r].date = Today(now)
     /\ st[r].time # None /\ st[r].time[1] # ""
     /\ st[r].notified_3min = 0}

\* the window test written "0 < time_diff_minutes < 10"
is_upcoming_exclusive(st, r, now) ==
  LET airdrop_datetime == EventDatetime(st[r].date, st[r].time[1])
  IN /\ airdrop_datetime >= 0
     /\ 0 < airdrop_datetime - now
     /\ airdrop_datetime - now < UPCOMING_MINUTES * 60

\* Whether the loop body appends row r: strptime succeeds and
\* 0 < time_diff_minutes <= 10
is_upcoming(st, r, now) ==
  LET airdrop_datetime == EventDatetime(st[r].date, st[r].time[1])
  IN /\ airdrop_datetime >= 0
     /\ 0 < airdrop_datetime - now
     /\ airdrop_datetime - now <= UPCOMING_MINUTES * 60

RECURSIVE upcoming_from(_, _, _)
upcoming_from(st, r, now) ==
  IF r > Len(st) THEN <<>>
  ELSE (IF r \in due_rows(st, now) /\ is_upcoming(st, r, now)
        THEN << [id |-> r,
                 datetime |-> EventDatetime(st[r].date, st[r].time[1])] >>
        ELSE <<>>) \o upcoming_from(st, r + 1, now)

check_upcoming_airdrops(st, now) == upcoming_from(st, 1, now)

\* wait_and_send_reminders without the sleep before the burst
reminder_wake_no_sleep(airdrop_datetime, now) == now

\* wait_and_send_reminders, up to the sleep: the time it goes on at
reminder_wake(airdrop_datetime, now) ==
  LET reminder_time == airdrop_datetime - REMINDER_3MIN * 60
      wait_seconds  == reminder_time - now
  IN IF wait_seconds > 0 THEN now + wait_seconds ELSE now

(***************************************************************************)
(* process_airdrops                                                        *)
(***************************************************************************)
\* fetch_api_data succeeds at time t with price lookup pr
StartPass(t, pr, maxPasses) ==
  /\ pc = "idle"
  /\ passes < maxPasses
  /\ t >= clock
  /\ clock' = t
  /\ prices' = pr
  /\ passes' = passes + 1
  /\ fed' = 0
  /\ pc' = "loop"
  /\ obs' = NoObs
  /\ UNCHANGED <<store, status_changes, sent, upcoming, cur, i, inv, call,
                 sink>>

\* process_airdrops with an except clause that only logs the error
FetchFail_logging_only(t, maxPasses) ==
  /\ pc = "idle"
  /\ passes < maxPasses
  /\ t >= clock
  /\ clock' = t
  /\ passes' = passes + 1
  /\ obs' = NoObs
  /\ UNCHANGED <<store, status_changes, sent, pc, fed, prices, upcoming, cur,
                 i, inv, call, sink>>

\* fetch_api_data raises at time t: the except clause of process_airdrops
\* sends the error notification and the pass is over
FetchFail(t, maxPasses) ==
  /\ pc = "idle"
  /\ passes < maxPasses
  /\ t >= clock
  /\ clock' = t
  /\ passes' = passes + 1
  /\ sent' = Append(sent, ErrorNotification)
  /\ obs' = NoObs
  /\ UNCHANGED <<store, status_changes, pc, fed, prices, upcoming, cur, i,
                 inv, call>>
  /\ sink' = sc_send_outcomes

\* check_and_notify_new when no row is stored: insert, notify, mark. No
\* caller of send_notification has a try block of its own: an exception
\* leaving it would skip the UPDATE and reach the except clause of
\* process_airdrops, as in abort_pass.
notify_new(airdrop, price, total_value) ==
  LET airdrop_id == Len(store) + 1
      priority   == get_priority_by_value(total_value)
      inserted   == insert_new_airdrop(store, airdrop, price, total_value)
      notice     == Notification("new", priority, airdrop_id, <<>>)
  IN IF send_notification(sink.down) = "raised"
     THEN /\ store' = inserted
          /\ sent' = sent \o <<notice, ErrorNotification>>
          /\ obs' = [NoObs EXCEPT !.outcome = "aborted", !.airdrop = airdrop]
          /\ pc' = "idle"
          /\ UNCHANGED status_changes
     ELSE /\ store' = mark_notified_new(inserted, airdrop_id)
          /\ sent' = Append(sent, notice)
          /\ obs' = [outcome |-> "new", airdrop |-> airdrop,
                     id |-> airdrop_id, old |-> None,
                     total_value |-> total_value, changes |-> <<>>,
                     logged |-> <<>>]
          /\ UNCHANGED <<status_changes, pc>>

\* the branch "if not is_new" with update_airdrop moved under "if changes:"
observe_known_if_changed(airdrop_id, airdrop, price, total_value) ==
  LET old_data == store[airdrop_id]
      pairs    == check_status_changes(airdrop_id, old_data, airdrop, price,
                                       total_value)
      changes  == Changes(pairs)
  IN /\ status_changes' = status_changes \o Logs(pairs)
     /\ store' = IF changes = <<>> THEN store
                 ELSE update_airdrop(store, airdrop_id, airdrop, price,
                                     total_value)
     /\ IF changes # <<>> /\ send_notification(sink.down) = "raised"
        THEN /\ sent' = sent \o notify_status_changes(airdrop_id, changes,
                                                      total_value)
                           \o <<ErrorNotification>>
             /\ obs' = [NoObs EXCEPT !.outcome = "aborted",
                                     !.airdrop = airdrop]
             /\ pc' = "idle"
        ELSE /\ sent' = sent \o notify_status_changes(airdrop_id, changes,
                                                      total_value)
             /\ obs' = [outcome |-> "known", airdrop |-> airdrop,
                        id |-> airdrop_id, old |-> old_data,
                        total_value |-> total_value, changes |-> changes,
                        logged |-> Logs(pairs)]
             /\ UNCHANGED pc

\* the branch "if not is_new": diff against the stored row, update, notify.
\* An exception leaving send_notification would come after the audit rows
\* and the update, and end the pass.
observe_known(airdrop_id, airdrop, price, total_value) ==
  LET old_data == store[airdrop_id]
      pairs    == check_status_changes(airdrop_id, old_data, airdrop, price,
                                       total_value)
      changes  == Changes(pairs)
  IN /\ status_changes' = status_changes \o Logs(pairs)
     /\ store' = update_airdrop(store, airdrop_id, airdrop, price, total_value)
     /\ IF changes # <<>> /\ send_notification(sink.down) = "raised"
        THEN /\ sent' = sent \o notify_status_changes(airdrop_id, changes,
                                                      total_value)
                           \o <<ErrorNotification>>
             /\ obs' = [NoObs EXCEPT !.outcome = "aborted",
                                     !.airdrop = airdrop]
             /\ pc' = "idle"
        ELSE /\ sent' = sent \o notify_status_changes(airdrop_id, changes,
                                                      total_value)
             /\ obs' = [outcome |-> "known", airdrop |-> airdrop,
                        id |-> airdrop_id, old |-> old_data,
                        total_value |-> total_value, changes |-> changes,
                        logged |-> Logs(pairs)]
             /\ UNCHANGED pc

\* An exception raised inside the loop reaches the except clause of
\* process_airdrops: the error notification is sent and the pass is over,
\* with the rest of the feed and check_upcoming_airdrops not run
abort_pass(airdrop) ==
  /\ sent' = Append(sent, ErrorNotification)
  /\ obs' = [NoObs EXCEPT !.outcome = "aborted", !.airdrop = airdrop]
  /\ pc' = "idle"
  /\ UNCHANGED <<store, status_changes>>

\* One iteration of the loop over the feed, on the feed's next record. The
\* comprehension before the loop drops a record whose date is not today.
ProcessEvent(airdrop, maxFeed) ==
  /\ pc = "loop"
  /\ fed < maxFeed
  /\ fed' = fed + 1
  /\ IF airdrop.date # Today(clock)
     THEN /\ obs' = [NoObs EXCEPT !.outcome = "filtered", !.airdrop = airdrop]
          /\ UNCHANGED <<store, status_changes, sent, pc>>
     ELSE IF is_airdrop_expired(airdrop, clock)
     THEN /\ obs' = [NoObs EXCEPT !.outcome = "expired", !.airdrop = airdrop]
          /\ UNCHANGED <<store, status_changes, sent, pc>>
     ELSE LET pv == calculate_value(airdrop.amount, airdrop.token, prices)
              existing == get_airdrop_by_key(store, airdrop.token,
                                             airdrop.date, airdrop.phase)
          IN IF pv = TypeError
             THEN abort_pass(airdrop)
             ELSE IF existing = 0
             THEN notify_new(airdrop, pv[1], pv[2])
             ELSE observe_known(existing, airdrop, pv[1], pv[2])
  /\ UNCHANGED <<clock, passes, prices, upcoming, cur, i, inv, call>>
  /\ sink' = sc_send_outcomes

\* The feed is exhausted: check_upcoming_airdrops. With nothing armed the
\* pass is over.
CheckUpcoming ==
  /\ pc = "loop"
  /\ upcoming' = check_upcoming_airdrops(store, clock)
  /\ pc' = IF upcoming' = <<>> THEN "idle" ELSE "wait"
  /\ cur' = IF upcoming' = <<>> THEN 0 ELSE 1
  /\ obs' = NoObs
  /\ UNCHANGED <<store, status_changes, sent, clock, passes, fed, prices, i,
                 inv, call, sink>>

\* wait_and_send_reminders(upcoming[cur]) up to and including time.sleep
WaitReminder ==
  /\ pc = "wait"
  /\ clock' = reminder_wake(upcoming[cur].datetime, clock)
  /\ i' = 0
  /\ pc' = IF REMINDER_COUNT > 0 THEN "send" ELSE "mark"
  /\ UNCHANGED <<store, status_changes, sent, passes, fed, prices, upcoming,
                 cur, obs, inv, call, sink>>

\* One iteration of "for i in range(REMINDER_COUNT)": send, then sleep
\* unless it was the last one. An exception leaving send_notification would
\* end the burst and the pass with the row unmarked.
SendReminder ==
  /\ pc = "send"
  /\ LET remaining == upcoming[cur].datetime - clock
         notice    == Notification("reminder", "urgent", upcoming[cur].id,
                                   <<i + 1, remaining>>)
     IN IF send_notification(sink.down) = "raised"
        THEN /\ sent' = sent \o <<notice, ErrorNotification>>
             /\ pc' = "idle"
             /\ cur' = 0
             /\ upcoming' = <<>>
             /\ UNCHANGED <<clock, i>>
        ELSE /\ sent' = Append(sent, notice)
             /\ clock' = IF i < REMINDER_COUNT - 1
                         THEN clock + REMINDER_INTERVAL
                         ELSE clock
             /\ i' = i + 1
             /\ pc' = IF i + 1 < REMINDER_COUNT THEN "send" ELSE "mark"
             /\ UNCHANGED <<upcoming, cur>>
  /\ UNCHANGED <<store, status_changes, passes, fed, prices, obs, inv, call>>
  /\ sink' = sc_send_outcomes

\* The end of wait_and_send_reminders: mark the row, then the next armed
\* event, or the end of the pass
MarkReminded ==
  /\ pc = "mark"
  /\ store' = mark_notified_3min(store, upcoming[cur].id)
  /\ IF cur < Len(upcoming)
     THEN /\ cur' = cur + 1
          /\ pc' = "wait"
          /\ UNCHANGED upcoming
     ELSE /\ cur' = 0
          /\ pc' = "idle"
          /\ upcoming' = <<>>
  /\ i' = 0
  /\ UNCHANGED <<status_changes, sent, clock, passes, fed, prices, obs, inv,
                 call, sink>>

\* The notification service goes down, or comes back: from now on sc_send
\* raises, or returns
SinkFlip ==
  /\ sink' = [sink EXCEPT !.down = ~@]
  /\ UNCHANGED <<store, status_changes, sent, clock, pc, passes, fed, prices,
                 upcoming, cur, i, obs, inv, call>>

(***************************************************************************)
(* Direct calls of the pure methods                                        *)
(***************************************************************************)
\* is_airdrop_expired(airdrop) called when get_beijing_time() gives now
CallExpired(airdrop, now) ==
  /\ clock' = now
  /\ call' = [method |-> "is_airdrop_expired", args |-> <<airdrop>>,
              result |-> is_airdrop_expired(airdrop, now)]
  /\ UNCHANGED <<store, status_changes, sent, pc, passes, fed, prices,
                 upcoming, cur, i, obs, inv, sink>>

\* calculate_value(amount, token, lookup)
CallCalculate(amount, token, lookup) ==
  /\ call' = [method |-> "calculate_value", args |-> <<amount, token, lookup>>,
              result |-> calculate_value(amount, token, lookup)]
  /\ UNCHANGED <<store, status_changes, sent, clock, pc, passes, fed, prices,
                 upcoming, cur, i, obs, inv, sink>>

(***************************************************************************)
(* Overlapping invocations of process_airdrops: each statement that        *)
(* commits is a step of its own, so that the steps of two invocations      *)
(* interleave. The records have no start time and no amount: nothing       *)
(* expires, valuation gives (None, None) and no reminder is armed.         *)
(***************************************************************************)
\* Whether INSERT raises sqlite3.IntegrityError: UNIQUE(token, date, phase)
\* finds a stored row equal in the three columns, none of them NULL
unique_conflict(st, airdrop) ==
  \E r \in 1..Len(st) :
    /\ SqlEq(Some(st[r].token), Some(airdrop.token))
    /\ SqlEq(Some(st[r].date), Some(airdrop.date))
    /\ SqlEq(st[r].phase, airdrop.phase)

\* Invocation p takes the next record of its feed: get_airdrop_by_key in
\* check_and_notify_new. A known event is diffed, updated and notified.
RaceGet(p, airdrop, maxFeed) ==
  /\ inv[p].at = "idle"
  /\ inv[p].taken < maxFeed
  /\ LET existing == get_airdrop_by_key(store, airdrop.token, airdrop.date,
                                        airdrop.phase)
     IN IF existing = 0
        THEN /\ inv' = [inv EXCEPT ![p].at = "insert",
                                   ![p].airdrop = airdrop]
             /\ UNCHANGED <<store, status_changes, sent, obs, pc>>
        ELSE /\ observe_known(existing, airdrop, None, None)
             /\ inv' = [inv EXCEPT ![p].taken = @ + 1]
  /\ UNCHANGED <<clock, passes, fed, prices, upcoming, cur, i, call>>
  /\ sink' = sc_send_outcomes

\* insert_new_airdrop of invocation p: the row, or IntegrityError, which the
\* except clause of process_airdrops turns into the error notification
RaceInsert(p) ==
  /\ inv[p].at = "insert"
  /\ IF unique_conflict(store, inv[p].airdrop)
     THEN /\ sent' = Append(sent, ErrorNotification)
          /\ inv' = [inv EXCEPT ![p].at = "failed"]
          /\ UNCHANGED store
     ELSE /\ store' = insert_new_airdrop(store, inv[p].airdrop, None, None)
          /\ inv' = [inv EXCEPT ![p].at = "notify",
                                ![p].id = Len(store) + 1]
          /\ UNCHANGED sent
  /\ UNCHANGED <<status_changes, clock, pc, passes, fed, prices, upcoming,
                 cur, i, obs, call>>
  /\ sink' = sc_send_outcomes

\* send_notification of the new event
RaceNotify(p) ==
  /\ inv[p].at = "notify"
  /\ sent' = Append(sent, Notification("new", get_priority_by_value(None),
                                       inv[p].id, <<>>))
  /\ inv' = [inv EXCEPT ![p].at = "mark"]
  /\ UNCHANGED <<store, status_changes, clock, pc, passes, fed, prices,
                 upcoming, cur, i, obs, call>>
  /\ sink' = sc_send_outcomes

\* UPDATE airdrops SET notified_new = 1, and on to the next record
RaceMark(p) ==
  /\ inv[p].at = "mark"
  /\ store' = mark_notified_new(store, inv[p].id)
  /\ inv' = [inv EXCEPT ![p] = [NoInvocation EXCEPT !.taken =
                                                     inv[p].taken + 1]]
  /\ UNCHANGED <<status_changes, sent, clock, pc, passes, fed, prices,
                 upcoming, cur, i, obs, call, sink>>

\* The process of invocation p ends (a kill, a power cut, Ctrl-C) between
\* two statements of check_and_notify_new: what was committed stays, the
\* statements that follow are not run
RaceInterrupt(p) ==
  /\ inv[p].at \in {"insert", "notify", "mark"}
  /\ inv' = [inv EXCEPT ![p].at = "killed"]
  /\ UNCHANGED <<store, status_changes, sent, clock, pc, passes, fed, prices,
                 upcoming, cur, i, obs, call, sink>>

(***************************************************************************)
(* Feeds, price lookups and invocation times the environment draws from    *)
(***************************************************************************)
MaxPasses == 2
MaxFeed == 2

Record(date, phase, time, amount, points) ==
  [token |-> "TKN", date |-> date, phase |-> phase, time |-> time,
   amount |-> amount, points |-> points, status |-> "announced"]

PriceOf(price, dex_price) ==
  [t \in Tokens |->
     Some([price |-> Some(price), dex_price |-> Some(dex_price)])]
NoPrice == [t \in Tokens |-> None]
\* {"TKN": {"price": null, "dex_price": 0.3}}
NullPrice ==
  [t \in Tokens |-> Some([price |-> None, dex_price |-> Some(30)])]

\* Spec: identities and start times vary, amount and points stay empty and
\* the price feed has no entry. The invocation times lie around the two
\* start times 10:00 and 10:05 of day 0, and one on day 1.
Feed ==
  {Record(d, ph, tm, Some(""), Some("")) :
     d \in {"2024-01-01", "2024-01-02"},
     ph \in {Some(1), None},
     tm \in {None, Some(""), Some("10:00 "), Some("10:00"), Some("10:05")}}

Times ==
  {HMS(0, 9, 49, 30), HMS(0, 9, 50, 0), HMS(0, 9, 58, 0), HMS(0, 10, 0, 0),
   HMS(0, 10, 3, 0), HMS(1, 9, 55, 0)}

Next ==
  \/ \E t \in Times : StartPass(t, NoPrice, MaxPasses)
  \/ \E t \in Times : FetchFail(t, MaxPasses)
  \/ \E airdrop \in Feed : ProcessEvent(airdrop, MaxFeed)
  \/ CheckUpcoming
  \/ WaitReminder
  \/ SendReminder
  \/ MarkReminded

Spec == Init /\ [][Next]_vars

\* SpecFields: one identity, observed once per pass; time, amount, points
\* and the price of the token vary.
FieldsMaxFeed == 1

FieldsFeed ==
  {Record("2024-01-01", Some(1), tm, am, pt) :
     tm \in {None, Some(""), Some("10:00 "), Some("10:00"), Some("10:05")},
     am \in {None, Some(""), Some(" "), Some("50"), Some("100")},
     pt \in {None, Some(""), Some("200")}}

FieldsPrices == {NoPrice, PriceOf(200, 0)}

FieldsTimes == {HMS(0, 9, 0, 0), HMS(0, 9, 58, 0)}

NextFields ==
  \/ \E t \in FieldsTimes, pr \in FieldsPrices : StartPass(t, pr, MaxPasses)
  \/ \E t \in FieldsTimes : FetchFail(t, MaxPasses)
  \/ \E airdrop \in FieldsFeed : ProcessEvent(airdrop, FieldsMaxFeed)
  \/ CheckUpcoming
  \/ WaitReminder
  \/ SendReminder
  \/ MarkReminded

SpecFields == Init /\ [][NextFields]_vars

\* SpecValue: one identity over a longer run of passes in which the amount
\* and the price feed come and go.
ValueMaxPasses == 4

ValueFeed ==
  {Record("2024-01-01", Some(1), tm, am, Some("")) :
     tm \in {Some(""), Some("10:00")},
     am \in {Some(""), Some("50")}}

ValuePrices == {NoPrice, PriceOf(200, 0), PriceOf(0, 30), NullPrice}

NextValue ==
  \/ \E t \in FieldsTimes, pr \in ValuePrices : StartPass(t, pr, ValueMaxPasses)
  \/ \E t \in FieldsTimes : FetchFail(t, ValueMaxPasses)
  \/ \E airdrop \in ValueFeed : ProcessEvent(airdrop, FieldsMaxFeed)
  \/ CheckUpcoming
  \/ WaitReminder
  \/ SendReminder
  \/ MarkReminded

SpecValue == Init /\ [][NextValue]_vars

\* SpecTiers: two identities, with amounts and prices whose products lie
\* below, at and above the two thresholds, and passes before and within the
\* reminder window of the start time 10:00.
TiersFeed ==
  {Record("2024-01-01", ph, tm, am, Some("")) :
     ph \in {Some(1), Some(2)},
     tm \in {Some(""), Some("10:00")},
     am \in {Some(""), Some("50")}}

TiersPrices == {NoPrice, PriceOf(99, 0), PriceOf(100, 0), PriceOf(200, 0)}

TiersTimes == {HMS(0, 9, 0, 0), HMS(0, 9, 58, 0), HMS(0, 9, 59, 0)}

NextTiers ==
  \/ \E t \in TiersTimes, pr \in TiersPrices : StartPass(t, pr, MaxPasses)
  \/ \E t \in TiersTimes : FetchFail(t, MaxPasses)
  \/ \E airdrop \in TiersFeed : ProcessEvent(airdrop, MaxFeed)
  \/ CheckUpcoming
  \/ WaitReminder
  \/ SendReminder
  \/ MarkReminded

SpecTiers == Init /\ [][NextTiers]_vars

\* SpecRace: two invocations at once, each over a feed of two records.
MaxRaceFeed == 2

RaceFeed ==
  {Record("2024-01-01", ph, tm, Some(""), Some("")) :
     ph \in {Some(1), None}, tm \in {Some(""), Some("Delay")}}

NextRace ==
  \/ \E p \in Invocations, airdrop \in RaceFeed :
       RaceGet(p, airdrop, MaxRaceFeed)
  \/ \E p \in Invocations : RaceInsert(p)
  \/ \E p \in Invocations : RaceNotify(p)
  \/ \E p \in Invocations : RaceMark(p)

SpecRace == Init /\ [][NextRace]_vars

\* SpecCalls: the pure methods on the arguments of their contracts. Dates:
\* missing (""), unparseable, two days; times: null, empty, blank, a word,
\* a clock time, one with a trailing blank, one that strptime rejects.
CallDates == {"", "01/01/2024", "2024-01-01", "2024-01-02"}

CallTimes ==
  {None, Some(""), Some(" "), Some("Delay"), Some("10:00"), Some("10:00 "),
   Some("25:00")}

CallNows ==
  {HMS(0, 9, 0, 0), HMS(0, 10, 0, 0), HMS(0, 10, 0, 1), HMS(1, 0, 1, 0),
   HMS(2, 0, 0, 0)}

CallAmounts ==
  {None, Some(""), Some(" "), Some("abc"), Some("50"), Some("100"),
   Some("1-5")}

CallLookups ==
  {NoPrice, PriceOf(0, 250), PriceOf(120, 500), PriceOf(0, 0),
   PriceOf(0 - 100, 200)}

CallFeed ==
  {Record(d, Some(1), tm, Some(""), Some("")) :
     d \in CallDates, tm \in CallTimes}

NextCalls ==
  \/ \E airdrop \in CallFeed, now \in CallNows : CallExpired(airdrop, now)
  \/ \E amount \in CallAmounts, lookup \in CallLookups :
       CallCalculate(amount, "TKN", lookup)

SpecCalls == Init /\ [][NextCalls]_vars

\* SpecSink: the passes of SpecFields' clock over two identities whose
\* start time is announced or not, with a notification service that goes
\* down and comes back at any moment.
SinkFeed ==
  {Record("2024-01-01", ph, tm, Some(""), Some("")) :
     ph \in {Some(1), Some(2)}, tm \in {Some(""), Some("10:00")}}

NextSink ==
  \/ \E t \in FieldsTimes : StartPass(t, NoPrice, MaxPasses)
  \/ \E t \in FieldsTimes : FetchFail(t, MaxPasses)
  \/ \E airdrop \in SinkFeed : ProcessEvent(airdrop, MaxFeed)
  \/ CheckUpcoming
  \/ WaitReminder
  \/ SendReminder
  \/ MarkReminded
  \/ SinkFlip

SpecSink == Init /\ [][NextSink]_vars

\* SpecBurst: two identities starting at 10:00 or 10:05, and passes that
\* begin nine, four and half a minute before 10:00.
BurstFeed ==
  {Record("2024-01-01", ph, tm, Some(""), Some("")) :
     ph \in {Some(1), Some(2)}, tm \in {Some("10:00"), Some("10:05")}}

BurstTimes == {HMS(0, 9, 51, 0), HMS(0, 9, 56, 0), HMS(0, 9, 59, 30)}

NextBurst ==
  \/ \E t \in BurstTimes : StartPass(t, NoPrice, MaxPasses)
  \/ \E t \in BurstTimes : FetchFail(t, MaxPasses)
  \/ \E airdrop \in BurstFeed : ProcessEvent(airdrop, MaxFeed)
  \/ CheckUpcoming
  \/ WaitReminder
  \/ SendReminder
  \/ MarkReminded

SpecBurst == Init /\ [][NextBurst]_vars

\* SpecCrash: the invocations of SpecRace over two identities with a phase,
\* each of which may be interrupted; the other one stands for the runs
\* that follow.
CrashFeed ==
  {Record("2024-01-01", ph, tm, Some(""), Some("")) :
     ph \in {Some(1), Some(2)}, tm \in {Some(""), Some("Delay")}}

NextCrash ==
  \/ \E p \in Invocations, airdrop \in CrashFeed :
       RaceGet(p, airdrop, MaxRaceFeed)
  \/ \E p \in Invocations : RaceInsert(p)
  \/ \E p \in Invocations : RaceNotify(p)
  \/ \E p \in Invocations : RaceMark(p)
  \/ \E p \in Invocations : RaceInterrupt(p)

SpecCrash == Init /\ [][NextCrash]_vars

(***************************************************************************)
(* Properties                                                              *)
(***************************************************************************)
Identity(row) == <<row.token, row.date, row.phase>>

Rows == 1..Len(store)

\* the calls of send_notification with this tag for rows of this identity
NotesOf(tag, key) ==
  {m \in 1..Len(sent) :
     /\ sent[m].tag = tag
     /\ Identity(store[sent[m].id]) = key}

\* C1: after any sequence of passes the store holds at most one row per
\* identity (token, date, phase): a record whose identity is stored is never
\* inserted a second time.
C1_OneRowPerIdentity ==
  \A r, q \in Rows : Identity(store[r]) = Identity(store[q]) => r = q

\* C2: over any sequence of passes, exactly one new-event notification has
\* been sent for every stored identity: the one of the observation that
\* inserted it, and none by a later observation.
C2_NewNotifiedOnce ==
  \A r \in Rows : Cardinality(NotesOf("new", Identity(store[r]))) = 1

\* C3: no step of any pass deletes a row or sets notified_new or
\* notified_3min of a stored row back from true to false.
C3_FlagsMonotone ==
  [][/\ Len(store') >= Len(store)
     /\ \A r \in Rows :
          /\ store[r].notified_new = 1 => store'[r].notified_new = 1
          /\ store[r].notified_3min = 1 => store'[r].notified_3min = 1]_vars

\* A row that was reminded in an earlier pass has just been updated, with a
\* changed time, by a later observation of its identity.
C3_Witness ==
  /\ obs.outcome = "known"
  /\ store[obs.id].notified_new = 1
  /\ store[obs.id].notified_3min = 1
  /\ obs.old.notified_3min = 1
  /\ obs.old.time # store[obs.id].time

\* C4: once the reminder burst of an event, identified by
\* (token, date, phase), is complete and notified_3min is set, a later
\* check_upcoming_airdrops never arms that event again (so it gets at most
\* REMINDER_COUNT reminders in total).
C4_NeverArmedAgain ==
  (pc = "wait" /\ cur = 1) =>
    \A k \in 1..Len(upcoming), q \in Rows :
      Identity(store[q]) = Identity(store[upcoming[k].id])
        => store[q].notified_3min = 0

\* C5: for the armed event upcoming[cur], wait_and_send_reminders
\*  - blocks exactly until wake_at = start - REMINDER_3MIN minutes when that
\*    lies ahead, and not at all when it has passed;
\*  - sends every reminder at or after wake_at, with tier urgent, numbered
\*    i + 1, carrying the remaining time of the moment it is sent, and
\*    sleeps REMINDER_INTERVAL after each but the last;
\*  - sets notified_3min of the row only when the last REMINDER_COUNT calls
\*    of send_notification are its reminders 1..REMINDER_COUNT, each
\*    REMINDER_INTERVAL after the one before.
C5_WakeAt == upcoming[cur].datetime - REMINDER_3MIN * 60

C5_Waits ==
  (pc = "wait" /\ pc' # "wait") =>
    /\ clock' = IF C5_WakeAt > clock THEN C5_WakeAt ELSE clock
    /\ sent' = sent

C5_Sends ==
  (Len(sent') > Len(sent) /\ sent'[Len(sent')].tag = "reminder") =>
    /\ Len(sent') = Len(sent) + 1
    /\ clock >= C5_WakeAt
    /\ sent'[Len(sent')].priority = "urgent"
    /\ sent'[Len(sent')].id = upcoming[cur].id
    /\ sent'[Len(sent')].info = <<i + 1, upcoming[cur].datetime - clock>>
    /\ i + 1 <= REMINDER_COUNT
    /\ clock' = IF i + 1 < REMINDER_COUNT THEN clock + REMINDER_INTERVAL
                ELSE clock
    /\ store[upcoming[cur].id].notified_3min = 0
    /\ store' = store

C5_Marks ==
  \A r \in Rows :
    (store[r].notified_3min = 0 /\ store'[r].notified_3min = 1) =>
      LET n == Len(sent)
      IN /\ sent' = sent
         /\ n >= REMINDER_COUNT
         /\ \A j \in 1..REMINDER_COUNT :
              /\ sent[n - REMINDER_COUNT + j].tag = "reminder"
              /\ sent[n - REMINDER_COUNT + j].priority = "urgent"
              /\ sent[n - REMINDER_COUNT + j].id = r
              /\ sent[n - REMINDER_COUNT + j].info[1] = j
              /\ sent[n - REMINDER_COUNT + j].info[2] =
                   sent[n - REMINDER_COUNT + 1].info[2]
                     - (j - 1) * REMINDER_INTERVAL
         /\ sent[n - REMINDER_COUNT + 1].info[2] <= REMINDER_3MIN * 60

C5_ReminderBurst == [][C5_Waits /\ C5_Sends /\ C5_Marks]_vars

\* Two events were armed in one pass: the burst of the first began without
\* waiting (its wake_at had passed), the burst of the second, now complete
\* and about to be marked, began exactly at its wake_at.
C5_Witness ==
  LET n == Len(sent)
  IN /\ pc = "mark"
     /\ cur = 2
     /\ n >= 2 * REMINDER_COUNT
     /\ sent[n - REMINDER_COUNT + 1].info = <<1, REMINDER_3MIN * 60>>
     /\ sent[n - 2 * REMINDER_COUNT + 1].tag = "reminder"
     /\ sent[n - 2 * REMINDER_COUNT + 1].info[1] = 1
     /\ sent[n - 2 * REMINDER_COUNT + 1].info[2] < REMINDER_3MIN * 60

\* C6: the events check_upcoming_airdrops arms are exactly the stored rows
\* whose date is today, whose time is non-empty and is a clock time, whose
\* notified_3min is false and whose start lies more than 0 and at most 10
\* minutes ahead; each is armed once.
\* The texts of KnownStrings that are clock times, with their seconds.
C6_ClockSeconds(s) ==
  CASE s = "10:00" -> 10 * 3600
    [] s = "10:05" -> 10 * 3600 + 5 * 60
    [] OTHER       -> -1

C6_Delta(row) ==
  DayOf(row.date) * DAY + C6_ClockSeconds(row.time[1]) - clock

C6_Expected ==
  {r \in Rows :
     /\ store[r].date = DateStr(clock \div DAY)
     /\ store[r].time # None
     /\ store[r].time # Some("")
     /\ C6_ClockSeconds(store[r].time[1]) >= 0
     /\ store[r].notified_3min = 0
     /\ 0 < C6_Delta(store[r])
     /\ C6_Delta(store[r]) <= 10 * 60}

C6_ArmedExactly ==
  [][(pc = "loop" /\ pc' # "loop") =>
       /\ {upcoming'[k].id : k \in 1..Len(upcoming')} = C6_Expected
       /\ Len(upcoming') = Cardinality(C6_Expected)]_vars

\* At 09:50 a row starting at 10:00 (exactly 10 minutes ahead) has been
\* armed while rows of today starting at 10:05, or with the unparseable
\* time "10:00 ", have not.
C6_Witness ==
  /\ pc = "wait"
  /\ cur = 1
  /\ clock = HMS(0, 9, 50, 0)
  /\ Len(upcoming) = 1
  /\ store[upcoming[1].id].time = Some("10:00")
  /\ \E r, q \in Rows :
       /\ store[r].date = Today(clock) /\ store[r].time = Some("10:05")
       /\ store[q].date = Today(clock) /\ store[q].time = Some("10:00 ")

\* The end-to-end scenario of C7. Before the first observation: the first
\* pass of an empty store. Before the second: what that pass left (the row
\* of (TKN, 2024-01-01, 1) with empty time, amount and points, one
\* new-event notification of tier normal, an empty audit log), in a second
\* pass before 10:00 of the same day whose price feed gives TKN 2.0.
C7_Row ==
  [token |-> "TKN", date |-> "2024-01-01", phase |-> Some(1),
   time |-> Some(""), amount |-> Some(""), points |-> Some(""),
   status |-> "announced", price |-> None, total_value |-> None,
   notified_new |-> 1, notified_3min |-> 0]

C7_New == [tag |-> "new", priority |-> "normal", id |-> 1, info |-> <<>>]

C7_First ==
  /\ pc = "loop" /\ passes = 1 /\ store = <<>> /\ sent = <<>>
  /\ obs'.outcome = "new"
  /\ obs'.airdrop = Record("2024-01-01", Some(1), Some(""), Some(""), Some(""))

C7_Second ==
  /\ pc = "loop" /\ passes = 2
  /\ store = <<C7_Row>> /\ sent = <<C7_New>> /\ status_changes = <<>>
  /\ clock < HMS(0, 10, 0, 0)
  /\ prices = PriceOf(200, 0)
  /\ obs'.outcome = "known"
  /\ obs'.airdrop =
       Record("2024-01-01", Some(1), Some("10:00"), Some("50"), Some(""))

C7_Types(n) ==
  /\ Len(status_changes') = n
  /\ \A k \in 1..Len(status_changes') : status_changes'[k].airdrop_id = 1
  /\ Len(sent') = 2
  /\ sent'[1] = C7_New
  /\ sent'[2].tag = "status"
  /\ sent'[2].id = 1
  /\ Len(sent'[2].info) = n
  /\ Len(store') = 1
  /\ store'[1].total_value = Some(10000)
  /\ store'[1].time = Some("10:00")
  /\ store'[1].amount = Some("50")

\* C7 as stated: the first pass inserts the event and sends one new-event
\* notification of tier normal; the second pass records exactly two
\* audit-log entries (time_updated, amount_updated), batched in exactly one
\* status-update notification, and stores total_value = 100.0.
C7_TwoEntries ==
  [][/\ C7_First => (store' = <<C7_Row>> /\ sent' = <<C7_New>>
                       /\ status_changes' = <<>>)
     /\ C7_Second =>
          /\ C7_Types(2)
          /\ status_changes'[1].change_type = "time_updated"
          /\ status_changes'[2].change_type = "amount_updated"]_vars

\* C7 as amended: the second pass records exactly three audit-log entries
\* (time_updated, amount_updated and value_updated: the stored total_value
\* was null and the incoming one is 100.0), batched in exactly one
\* status-update notification of tier high, and stores total_value = 100.0.
C7_ThreeEntries ==
  [][/\ C7_First => (store' = <<C7_Row>> /\ sent' = <<C7_New>>
                       /\ status_changes' = <<>>)
     /\ C7_Second =>
          /\ C7_Types(3)
          /\ status_changes'[1].change_type = "time_updated"
          /\ status_changes'[1].old_value = ""
          /\ status_changes'[1].new_value = "10:00"
          /\ status_changes'[2].change_type = "amount_updated"
          /\ status_changes'[2].old_value = ""
          /\ status_changes'[2].new_value = "50"
          /\ status_changes'[3].change_type = "value_updated"
          /\ status_changes'[3].new_value = Some(10000)
          /\ sent'[2].info =
               <<"time_confirmed", "amount_confirmed", "value_confirmed">>
          /\ sent'[2].priority = get_priority_by_value(Some(10000))]_vars

\* The state right after the second observation of the scenario.
C7_Witness ==
  /\ passes = 2
  /\ obs.outcome = "known"
  /\ obs.old = C7_Row
  /\ obs.airdrop =
       Record("2024-01-01", Some(1), Some("10:00"), Some("50"), Some(""))
  /\ prices = PriceOf(200, 0)
  /\ clock < HMS(0, 10, 0, 0)
  /\ sent[1] = C7_New
  /\ Len(sent) = 2
  /\ Len(status_changes) = 3
  /\ store[1].total_value = Some(10000)

\* A nullable text is blank when it is null, empty or only whitespace; Norm
\* is the text the code compares: stripped, with null as empty.
Blank(x) == x = None \/ Strip(x[1]) = ""
Norm(x) == IF x = None THEN "" ELSE Strip(x[1])

ChangesOfType(type) ==
  {k \in 1..Len(obs.changes) : obs.changes[k].type = type}
LoggedOfType(type) ==
  {k \in 1..Len(obs.logged) : obs.logged[k].change_type = type}

\* C8: for a known event, check_status_changes produces a time_updated
\* change iff the stored and the incoming time differ and the incoming time
\* is not blank; then exactly one change and one audit record, with the
\* newly-confirmed message when the stored time was blank and the
\* changed-time message otherwise. A blank incoming time gives no change.
C8_TimeChangeIff ==
  obs.outcome = "known" =>
    LET old == obs.old.time
        new == obs.airdrop.time
        due == ~ Blank(new) /\ Norm(old) # Norm(new)
    IN /\ Cardinality(ChangesOfType("time_updated")) = IF due THEN 1 ELSE 0
       /\ Cardinality(LoggedOfType("time_updated")) = IF due THEN 1 ELSE 0
       /\ \A k \in ChangesOfType("time_updated") :
            obs.changes[k].message =
              IF Blank(old) THEN "time_confirmed" ELSE "time_changed"

\* C9: for a known event and each of amount and points, check_status_changes
\* produces the field's change iff the stored value was blank and the
\* incoming value is not blank, and then exactly one; non-blank to
\* non-blank, or to blank, gives none.
C9_RevealIff ==
  obs.outcome = "known" =>
    /\ Cardinality(ChangesOfType("amount_updated")) =
         IF Blank(obs.old.amount) /\ ~ Blank(obs.airdrop.amount)
         THEN 1 ELSE 0
    /\ Cardinality(ChangesOfType("points_updated")) =
         IF Blank(obs.old.points) /\ ~ Blank(obs.airdrop.points)
         THEN 1 ELSE 0

\* C10: over any sequence of passes and price feeds at most one
\* value_updated change is recorded per event.
C10_OneValueUpdate ==
  \A r \in Rows :
    Cardinality({k \in 1..Len(status_changes) :
                   /\ status_changes[k].airdrop_id = r
                   /\ status_changes[k].change_type = "value_updated"}) <= 1

\* C11: an observation of a known event whose time, amount and points are
\* those of the stored row (a replay of the feed, or a record that differs
\* only in price, status or an already non-null total_value) produces an
\* empty change set, appends no audit record and sends no notification.
C11_SilentReplay ==
  [][(/\ fed' = fed + 1
      /\ obs'.outcome = "known"
      /\ obs'.airdrop.time = obs'.old.time
      /\ obs'.airdrop.amount = obs'.old.amount
      /\ obs'.airdrop.points = obs'.old.points
      /\ (obs'.old.total_value # None \/ obs'.total_value = None))
       => /\ obs'.changes = <<>>
          /\ status_changes' = status_changes
          /\ sent' = sent]_vars

\* C12: a pass whose fetch of the data feed or of the price feed fails does
\* no processing: it inserts and updates no row, appends no audit record,
\* arms nothing, and sends exactly one notification, of tier high, the
\* system error, before it ends. (A pass that ends in the step it began in
\* is a pass whose fetch failed.)
C12_FailedFetch ==
  [][(pc = "idle" /\ passes' = passes + 1 /\ pc' = "idle")
       => /\ store' = store
          /\ status_changes' = status_changes
          /\ upcoming' = upcoming
          /\ Len(sent') = Len(sent) + 1
          /\ SubSeq(sent', 1, Len(sent)) = sent
          /\ sent'[Len(sent')].tag = "error"
          /\ sent'[Len(sent')].priority = "high"]_vars

\* The second pass failed to fetch, over a store the first pass had filled;
\* its one notification is the last one sent.
C12_Witness ==
  /\ pc = "idle"
  /\ passes = 2
  /\ obs = NoObs
  /\ upcoming = <<>>
  /\ Len(store) >= 1
  /\ Len(sent) >= 2
  /\ sent[Len(sent)].tag = "error"
  /\ sent[Len(sent) - 1].tag # "error"

\* C13: a valuation failure never aborts the pass: every record of today
\* that is not expired is inserted or updated by its loop iteration, which
\* sends no error notification and leaves the pass running (the rest of the
\* feed and the countdown scan follow).
C13_ValuationNeverAborts ==
  [][(/\ pc = "loop"
      /\ fed' = fed + 1
      /\ obs'.airdrop.date = Today(clock)
      /\ ~ is_airdrop_expired(obs'.airdrop, clock))
       => /\ pc' = "loop"
          /\ obs'.outcome \in {"new", "known"}
          /\ \A m \in 1..Len(sent') : sent'[m].tag # "error"]_vars

\* A feed record of today whose time is a clock time that has passed: what
\* is_airdrop_expired classifies as expired among the records a pass loops
\* over.
C18_Expired(airdrop) ==
  /\ airdrop.date = DateStr(clock \div DAY)
  /\ airdrop.time # None
  /\ C6_ClockSeconds(airdrop.time[1]) >= 0
  /\ clock > DayOf(airdrop.date) * DAY + C6_ClockSeconds(airdrop.time[1])

\* C18: the loop iteration on an expired record changes nothing: no row is
\* inserted or changed, no audit record appended, no notification sent;
\* in the first pass and in every later one.
C18_ExpiredSkipped ==
  [][(pc = "loop" /\ fed' = fed + 1 /\ C18_Expired(obs'.airdrop))
       => /\ store' = store
          /\ status_changes' = status_changes
          /\ sent' = sent
          /\ pc' = "loop"]_vars

\* A later pass has just skipped an expired record whose event an earlier
\* pass had stored, with the same start time.
C18_Witness ==
  /\ passes = 2
  /\ obs.outcome = "expired"
  /\ C18_Expired(obs.airdrop)
  /\ \E r \in Rows :
       /\ Identity(store[r]) = Identity(obs.airdrop)
       /\ store[r].time = obs.airdrop.time
       /\ store[r].notified_3min = 0

\* C14: in every interleaving of two overlapping invocations the store
\* holds at most one row per identity and at most one new-event
\* notification has been sent for it; the invocation whose insert hit the
\* uniqueness constraint has inserted nothing, ended as a fatal error
\* (failed) and the error notification has been sent.
C14_RaceSafe ==
  /\ \A r, q \in Rows : Identity(store[r]) = Identity(store[q]) => r = q
  /\ \A r \in Rows : Cardinality(NotesOf("new", Identity(store[r]))) <= 1
  /\ \A p \in Invocations :
       inv[p].at = "failed" =>
         /\ \E m \in 1..Len(sent) : sent[m].tag = "error"
         /\ \E r \in Rows : Identity(store[r]) = Identity(inv[p].airdrop)

\* The dates of CallDates that are dates, by day; the others are missing
\* or unparseable.
C15_Day(date) ==
  CASE date = "2024-01-01" -> 0
    [] date = "2024-01-02" -> 1
    [] OTHER               -> 0 - 1

\* C15: is_airdrop_expired is false when the date is missing or
\* unparseable; is (now > event_datetime) when the time is a clock time
\* that builds a timestamp; and is (today > event_date) in every other
\* case: time null, empty or blank, not of the form H:MM ("Delay"), or of
\* that form but rejected when the timestamp is built ("25:00", "10:00 ").
C15_ExpiredAsSpecified ==
  call.method = "is_airdrop_expired" =>
    LET airdrop == call.args[1]
        day     == C15_Day(airdrop.date)
        start   == IF airdrop.time = None THEN 0 - 1
                   ELSE C6_ClockSeconds(airdrop.time[1])
    IN call.result =
         IF day < 0 THEN FALSE
         ELSE IF start >= 0 THEN clock > day * DAY + start
         ELSE clock \div DAY > day

\* The call on a record of day 0 with time "25:00", made on day 1: the form
\* H:MM, no timestamp, expired by the date alone.
C15_Witness ==
  /\ call.method = "is_airdrop_expired"
  /\ call.args[1].date = "2024-01-01"
  /\ call.args[1].time = Some("25:00")
  /\ clock = HMS(1, 0, 1, 0)
  /\ call.result = TRUE

\* The amounts of CallAmounts that are non-negative decimals, in
\* hundredths; the others are missing or malformed.
C16_Amount(amount) ==
  CASE amount = Some("50")  -> 5000
    [] amount = Some("100") -> 10000
    [] OTHER                -> 0 - 1

\* C16: calculate_value returns (None, None) when the amount is missing or
\* is not a non-negative decimal, when the token has no lookup entry, or
\* when price and dex_price are both <= 0; otherwise (p, amount * p) with
\* p = price if price > 0 else dex_price.
C16_ValueAsSpecified ==
  call.method = "calculate_value" =>
    LET amount == C16_Amount(call.args[1])
        info   == call.args[3][call.args[2]]
        p      == IF info[1].price[1] > 0 THEN info[1].price[1]
                  ELSE info[1].dex_price[1]
    IN call.result =
         IF amount < 0 \/ info = None THEN <<None, None>>
         ELSE IF p <= 0 THEN <<None, None>>
         ELSE <<Some(p), Some((amount * p) \div 100)>>

C17_Rank(tier) ==
  CASE tier = "normal" -> 0
    [] tier = "medium" -> 1
    [] tier = "high"   -> 2
    [] OTHER           -> 3

\* values below, at and above each threshold, zero and a negative one
C17_Values ==
  {0 - 1, 0,
   MEDIUM_VALUE_THRESHOLD - 1, MEDIUM_VALUE_THRESHOLD,
   MEDIUM_VALUE_THRESHOLD + 1,
   HIGH_VALUE_THRESHOLD - 1, HIGH_VALUE_THRESHOLD, HIGH_VALUE_THRESHOLD + 1}

C17_Classified(priority, total_value) ==
  /\ priority \in {"normal", "medium", "high"}
  /\ priority = "high" <=>
       (total_value # None /\ total_value[1] >= HIGH_VALUE_THRESHOLD)
  /\ priority = "medium" <=>
       (/\ total_value # None
        /\ total_value[1] >= MEDIUM_VALUE_THRESHOLD
        /\ total_value[1] < HIGH_VALUE_THRESHOLD)

\* C17: the tier of every new-event and status-update notification is the
\* classification of the total_value of the observation that sent it: high
\* from HIGH_VALUE_THRESHOLD, medium from MEDIUM_VALUE_THRESHOLD and below
\* HIGH, normal otherwise and for null; the classification is monotone in
\* the value; urgent is the tier of the countdown reminders and of nothing
\* else.
C17_PriorityTiers ==
  [][/\ \A m \in (Len(sent) + 1)..Len(sent') :
          IF sent'[m].tag = "reminder" THEN sent'[m].priority = "urgent"
          ELSE IF sent'[m].tag \in {"new", "status"}
          THEN C17_Classified(sent'[m].priority, obs'.total_value)
          ELSE sent'[m].priority # "urgent"
     /\ C17_Classified(get_priority_by_value(None), None)
     /\ \A v \in C17_Values :
          C17_Classified(get_priority_by_value(Some(v)), Some(v))
     /\ \A v, w \in C17_Values :
          v <= w => C17_Rank(get_priority_by_value(Some(v)))
                      <= C17_Rank(get_priority_by_value(Some(w)))]_vars

\* Notifications of all four tiers have been sent: normal, medium for a
\* value at MEDIUM_VALUE_THRESHOLD, high, and an urgent reminder.
C17_Witness ==
  /\ \E m \in 1..Len(sent) :
       sent[m].tag \in {"new", "status"} /\ sent[m].priority = "normal"
  /\ \E m \in 1..Len(sent) :
       sent[m].tag \in {"new", "status"} /\ sent[m].priority = "high"
  /\ \E m \in 1..Len(sent) :
       sent[m].tag = "reminder" /\ sent[m].priority = "urgent"
  /\ obs.outcome \in {"new", "known"}
  /\ obs.total_value = Some(MEDIUM_VALUE_THRESHOLD)
  /\ sent[Len(sent)].tag \in {"new", "status"}
  /\ sent[Len(sent)].priority = "medium"

\* C19: every observation of a non-expired known event diffs the record
\* against the row as it was stored before, and then, whether or not the
\* diff found a change, overwrites time, amount, points, status, price and
\* total_value of that row with the incoming values, leaving its identity,
\* notified_new and notified_3min and every other row unchanged.
C19_UpdateFrame ==
  [][(pc = "loop" /\ fed' = fed + 1 /\ obs'.outcome = "known")
       => LET id      == obs'.id
              airdrop == obs'.airdrop
              pv      == calculate_value(airdrop.amount, airdrop.token, prices)
          IN /\ id \in Rows
             /\ Identity(store[id]) = Identity(airdrop)
             /\ obs'.old = store[id]
             /\ obs'.changes =
                  Changes(check_status_changes(id, store[id], airdrop,
                                               pv[1], pv[2]))
             /\ Len(store') = Len(store)
             /\ store'[id].time = airdrop.time
             /\ store'[id].amount = airdrop.amount
             /\ store'[id].points = airdrop.points
             /\ store'[id].status = airdrop.status
             /\ store'[id].price = pv[1]
             /\ store'[id].total_value = pv[2]
             /\ Identity(store'[id]) = Identity(store[id])
             /\ store'[id].notified_new = store[id].notified_new
             /\ store'[id].notified_3min = store[id].notified_3min
             /\ \A r \in Rows : r # id => store'[r] = store[r]]_vars

\* A row that was reminded has just been updated by an observation that
\* found no change to notify: only its price and total_value are new. A
\* second row is stored.
C19_Witness ==
  /\ obs.outcome = "known"
  /\ obs.changes = <<>>
  /\ Len(store) = 2
  /\ obs.old.notified_3min = 1
  /\ store[obs.id].notified_3min = 1
  /\ obs.old.price # store[obs.id].price
  /\ obs.old.total_value # None
  /\ obs.old.total_value # store[obs.id].total_value
  /\ Len(sent) >= 1
  /\ sent[Len(sent)].tag = "reminder"

\* str(x) of a value a change carries
C20_Str(x) == IF x = None THEN "None" ELSE x[1]

\* the audit rows a step appends
C20_Appended == SubSeq(status_changes', Len(status_changes) + 1,
                       Len(status_changes'))

\* C20: the audit log is append-only and exact. No step changes or removes
\* a record; only the observation of a known event appends, one record per
\* change of the returned change set, in order, with its row id, type and
\* str(old), str(new); a difference that fails its notify condition (the
\* amount of a row whose stored amount is not blank, a time equal to the
\* stored one) appends nothing.
C20_AuditExact ==
  [][/\ Len(status_changes') >= Len(status_changes)
     /\ SubSeq(status_changes', 1, Len(status_changes)) = status_changes
     /\ (status_changes' # status_changes)
          => (pc = "loop" /\ fed' = fed + 1 /\ obs'.outcome = "known")
     /\ (pc = "loop" /\ fed' = fed + 1 /\ obs'.outcome = "known")
          => /\ Len(C20_Appended) = Len(obs'.changes)
             /\ \A k \in 1..Len(C20_Appended) :
                  /\ C20_Appended[k].airdrop_id = obs'.id
                  /\ C20_Appended[k].change_type = obs'.changes[k].type
                  /\ C20_Appended[k].old_value = C20_Str(obs'.changes[k].old)
                  /\ IF obs'.changes[k].type = "value_updated"
                     THEN C20_Appended[k].new_value = obs'.changes[k].new
                     ELSE C20_Appended[k].new_value =
                            C20_Str(obs'.changes[k].new)
             /\ Norm(obs'.old.amount) # "" =>
                  \A k \in 1..Len(C20_Appended) :
                    C20_Appended[k].change_type # "amount_updated"
             /\ (obs'.airdrop.time # None
                   /\ Norm(obs'.old.time) = Norm(obs'.airdrop.time)) =>
                  \A k \in 1..Len(C20_Appended) :
                    C20_Appended[k].change_type # "time_updated"]_vars

\* The log holds records of both rows, and the last observation, of a row
\* whose stored amount was not blank and differs from the incoming one, has
\* appended the record of its time change only.
C20_Witness ==
  /\ obs.outcome = "known"
  /\ Len(status_changes) >= 3
  /\ \E k \in 1..Len(status_changes) : status_changes[k].airdrop_id = 1
  /\ \E k \in 1..Len(status_changes) : status_changes[k].airdrop_id = 2
  /\ Norm(obs.old.amount) # ""
  /\ obs.old.amount # obs.airdrop.amount
  /\ Len(obs.logged) = 1
  /\ obs.logged[1].change_type = "time_updated"
  /\ status_changes[Len(status_changes)] = obs.logged[1]

\* C21: a failure of the notification sink never propagates. A step taken
\* while sc_send raises makes the store transitions and goes on exactly as
\* the step made while it returns: a new event is inserted and marked
\* notified_new, a known one gets its audit rows and its update, the loop
\* goes on with the next record, the burst goes on with the next reminder
\* and ends in the mark of notified_3min, and the error notification of the
\* except clause is sent for a failed fetch only.
C21_Value == calculate_value(obs'.airdrop.amount, obs'.airdrop.token, prices)

C21_Loop ==
  (pc = "loop" /\ fed' = fed + 1) =>
    /\ pc' = "loop"
    /\ obs'.outcome \in {"filtered", "expired", "new", "known"}
    /\ obs'.outcome \in {"filtered", "expired"} =>
         UNCHANGED <<store, status_changes, sent>>
    /\ obs'.outcome = "new" =>
         /\ store' = mark_notified_new(
                       insert_new_airdrop(store, obs'.airdrop, C21_Value[1],
                                          C21_Value[2]),
                       Len(store) + 1)
         /\ status_changes' = status_changes
         /\ Len(sent') = Len(sent) + 1
    /\ obs'.outcome = "known" =>
         /\ store' = update_airdrop(store, obs'.id, obs'.airdrop,
                                    C21_Value[1], C21_Value[2])
         /\ status_changes' = status_changes \o obs'.logged
         /\ Len(sent') = Len(sent) + (IF obs'.changes = <<>> THEN 0 ELSE 1)

C21_Burst ==
  /\ pc = "send" =>
       /\ i' = i + 1
       /\ pc' = (IF i + 1 < REMINDER_COUNT THEN "send" ELSE "mark")
       /\ Len(sent') = Len(sent) + 1
       /\ UNCHANGED <<store, status_changes, upcoming, cur>>
  /\ pc = "mark" =>
       /\ store' = mark_notified_3min(store, upcoming[cur].id)
       /\ UNCHANGED <<status_changes, sent>>

C21_Errors ==
  \A m \in (Len(sent) + 1)..Len(sent') : sent'[m].tag = "error" => pc = "idle"

C21_SinkFailureSwallowed ==
  [][sink.down /\ sink' = sc_send_outcomes
       => C21_Loop /\ C21_Burst /\ C21_Errors]_vars

\* A pass is over in which the new-event notification, the status update
\* and every reminder of one event were lost, and its row carries both
\* flags
C21_Witness ==
  /\ pc = "idle"
  /\ \E r \in Rows :
       /\ store[r].notified_new = 1
       /\ store[r].notified_3min = 1
       /\ \A m \in 1..Len(sent) : sent[m].id = r => m \in sink.lost
       /\ \E m \in 1..Len(sent) : sent[m].id = r /\ sent[m].tag = "new"
       /\ \E m \in 1..Len(sent) : sent[m].id = r /\ sent[m].tag = "status"
       /\ \E m \in 1..Len(sent) :
            /\ sent[m].id = r
            /\ sent[m].tag = "reminder"
            /\ sent[m].info[1] = REMINDER_COUNT

\* C22: with (REMINDER_COUNT - 1) * REMINDER_INTERVAL shorter than the
\* pre-notice offset, every countdown reminder is sent strictly before the
\* start time of its event: the seconds that remain when it is sent are
\* positive, also when several events are armed in one pass.
C22_BurstFits ==
  (REMINDER_COUNT - 1) * REMINDER_INTERVAL < REMINDER_3MIN * 60

C22_RemindersBeforeStart ==
  C22_BurstFits =>
    \A m \in 1..Len(sent) : sent[m].tag = "reminder" => sent[m].info[2] > 0

\* C23: the new-event notification is at-least-once across interrupted
\* runs. Once a row has been observed again as a known event and no
\* invocation is still about to send for it, a new-event send has been
\* attempted for it; and a row has notified_new = 1 only if such a send was
\* attempted.
C23_Attempted(r) ==
  \E m \in 1..Len(sent) : sent[m].tag = "new" /\ sent[m].id = r

C23_Pending(r) ==
  \E p \in Invocations : inv[p].at = "notify" /\ inv[p].id = r

C23_NewAtLeastOnce ==
  \A r \in Rows :
    /\ (obs.outcome = "known" /\ obs.id = r /\ ~C23_Pending(r))
         => C23_Attempted(r)
    /\ store[r].notified_new = 1 => C23_Attempted(r)

====
